---- MODULE Spec2Model ----
(***************************************************************************)
(* Moes-IPA-Mirror: the bulk downloader of scrape.js and of its earlier    *)
(* revisions (src/unnamed/part_000 .. part_003).                           *)
(*                                                                         *)
(* Three levels are modelled.                                              *)
(*                                                                         *)
(*  - The batch level: scrape() driving parallelLimit() over the catalog.  *)
(*    mode = "whole"   is part_003/part_002/part_000: one parallelLimit    *)
(*                     call over the whole catalog with MAX_PARALLEL;      *)
(*    mode = "batched" is scrape.js: slices of BATCH_SIZE, each followed   *)
(*                     by uploadBatch;                                     *)
(*    mode = "concurrent" is the second program of part_002: the manifest  *)
(*                     entries are built first, then runConcurrent runs    *)
(*                     the download tasks.                                 *)
(*    JavaScript runs scrape() to its next await before any other          *)
(*    continuation runs, so a job can settle only while scrape() awaits.   *)
(*    At this level a download is two steps: the synchronous part run by   *)
(*    fn(item) (the skip check) and the settling of its promise.           *)
(*                                                                         *)
(*  - The fetch level: one call of downloadGDrive (scrape.js), of          *)
(*    downloadFile (part_002), of downloadFile (part_001, with its nested  *)
(*    calls) or one turn of the gdown main loop of part_001, request by    *)
(*    request.                                                             *)
(*                                                                         *)
(*  - The catalog level: the descriptors scrape() builds from the cards    *)
(*    of the page (name -> ipaPath), and googleDriveDirectLink (of         *)
(*    scrape.js, of part_003) applied to a card's href and to its own      *)
(*    result.                                                              *)
(***************************************************************************)
EXTENDS Integers, Sequences, FiniteSets, TLC

\* ------------------------------------------------------------------ bounds
\* Catalog size (number of .app-card descriptors).
NumJobs == 4
\* Largest concurrency limit tried for the whole-catalog variant.
MaxLimit == 3
\* Batch size of the batched variant, scaled down from the program's 5.
BATCH_SIZE == 2
\* Bytes of a complete payload; 1 .. PayloadLen-1 are partial transfers.
PayloadLen == 2
\* Cap on the GET requests of one downloadFile call: the confirmation and
\* redirect loop of part_002 has no bound of its own.
MaxGets == 6
\* Chunks of the longest HTML body the provider sends.
MaxBody == 2
\* Deepest nesting of downloadFile calls of part_001 that is followed.
MaxDepth == 1

\* ------------------------------------------------------ program constants
\* scrape.js: const maxAttempts = 3
maxAttempts == 3
\* part_002: const MAX_RETRIES = 3
MAX_RETRIES == 3

Jobs == 1 .. NumJobs

\* ------------------------------------------------------------------ files
\* What fs.existsSync / fs.statSync(...).size see of one destination path.
NoFile == [exists |-> FALSE, size |-> 0]
FileOf(n) == [exists |-> TRUE, size |-> n]
PartialLen == PayloadLen - 1

VARIABLES
    mode,             \* "whole" | "batched" | "concurrent" (part_002,
                      \* runConcurrent)
    limit,            \* the limit argument of parallelLimit, the
                      \* concurrency argument of runConcurrent
    pc,               \* where scrape() stands
    err,              \* what sent scrape() to its catch block
    lo,               \* index of the first descriptor of the current batch
    idx,              \* index of the next descriptor the for-loop takes
    executing,        \* parallelLimit: executing
    results,          \* parallelLimit: results (the promises started);
                      \* runConcurrent: results (one entry per settled task)
    job,              \* state of the promise fn(item) returned
    starts,           \* number of times fn was invoked on the descriptor
    outcome,          \* what the download did: "none" | "ok" | "skip" | "fail"
    prov,             \* provider behaviour met by the job ("unknown" before)
    file,             \* destination file of the job
    file0,            \* destination file when fn(item) was invoked
    calls,            \* TRUE when the job issued at least one HTTP request
    apps,             \* scrape: apps
    failedDownloads,  \* scrape: failedDownloads
    upQueue,          \* uploadBatch: files still to upload
    uploaded,         \* files handed to gh release upload so far
    manifest,         \* entries of repo.feather.json once written
    failedLog,        \* entries of failedDownloads.json once written
    run,              \* 1 on the first run of scrape(), 2 on the re-run
    prevApps,         \* completed set of the first run
    prevFailed,       \* failed set of the first run
    \* --- the fetch level: one call of the fetcher
    fetcher,          \* "downloadGDrive" (scrape.js) | "downloadFile" (part_002)
                      \* | "downloadFromGDrive" (part_001, gdown main loop)
                      \* | "downloadFile_001" (part_001, downloadFile)
    fpc,              \* where the call stands
    attempt,          \* the attempt counter of the retry loop
    dfile,            \* the destination file (outputPath / targetPath)
    dfile0,           \* the destination file when the fetcher was called
    gets,             \* number of GET requests issued by the call
    via,              \* which request of the attempt was issued last:
                      \* "direct" | "href" | "confirm" | "redirect"
    streamed,         \* bytes of the body the last finished stream delivered
    lastErr,          \* error caught last
    quotaAt,          \* value of gets when a quota page was read, else 0
    fres,             \* "none" | "skipped" | "downloaded" | "failed" | "stalled"
    urlHasId,         \* the normalized URL carries an id= parameter
    provider,         \* "any" | "selfRef": every answer is a confirm page
    resp,             \* first response of the current attempt, as read so far
    target,           \* file id the follow-up GET of the attempt goes to
    waits,            \* delays of the backoff timers set so far, in ms
    failures,         \* number of attempts that ended in the catch block
    thrown,           \* the error the call threw, else NoThrow
    outer,            \* part_001: attempt counters of the downloadFile calls
                      \* waiting for the call they made, outermost first
    \* --- the catalog level: building the descriptors, normalizing a link
    names,            \* data-name of each .app-card, in page order
    ipaPaths,         \* ipaPath of each descriptor once appsToDownload is built
    originalUrl,      \* href of a card: the originalUrl of downloadGDrive
    normalized,       \* googleDriveDirectLink(originalUrl) once computed
    variant           \* whose googleDriveDirectLink: "scrape.js" | "part_003"

batchVars == <<mode, limit, pc, err, lo, idx, executing, results, job, starts,
               outcome, prov, file, file0, calls, apps, failedDownloads,
               upQueue, uploaded, manifest, failedLog, run, prevApps,
               prevFailed>>

\* What a call is given: these never change after Init.
callVars == <<fetcher, provider, dfile0, urlHasId>>

\* What only downloadGDrive keeps.
gdriveVars == <<resp, target, waits, failures>>

\* What only downloadFile of part_001 keeps.
nestVars == <<outer>>

fetchVars == <<callVars, fpc, attempt, dfile, gets, via, streamed, lastErr,
               quotaAt, fres, thrown, gdriveVars, nestVars>>

catVars == <<names, ipaPaths, originalUrl, normalized, variant>>

vars == <<batchVars, fetchVars, catVars>>

\* ------------------------------------------------------------- sequences
Range(s) == {s[i] : i \in 1 .. Len(s)}

RECURSIVE SelectIdx(_, _, _)
\* s without its element at position k (Array.prototype.splice(k, 1)).
SelectIdx(s, k, i) ==
    IF i > Len(s) THEN <<>>
    ELSE IF i = k THEN SelectIdx(s, k, i + 1)
    ELSE <<s[i]>> \o SelectIdx(s, k, i + 1)

Splice(s, k) == SelectIdx(s, k, 1)

RECURSIVE FindIndex(_, _, _)
\* Array.prototype.findIndex(e => e === p), 1-based; 0 when absent.
FindIndex(s, p, i) ==
    IF i > Len(s) THEN 0
    ELSE IF s[i] = p THEN i
    ELSE FindIndex(s, p, i + 1)

\* ------------------------------------------------------------ the catalog
\* The descriptors scrape() builds from the .app-card elements. The batched
\* variant is run on one full batch and one more descriptor.
Catalog(m) == IF m = "batched" THEN 1 .. (BATCH_SIZE + 1) ELSE Jobs

CatalogSize(m) == IF m = "batched" THEN BATCH_SIZE + 1 ELSE NumJobs

HiNoSlice(m, l) == CatalogSize(m)

\* Last index of the slice parallelLimit is called on:
\* appsToDownload.slice(i, i + BATCH_SIZE), or the whole array.
Hi(m, l) ==
    IF m # "batched" THEN NumJobs
    ELSE IF l + BATCH_SIZE - 1 < CatalogSize(m) THEN l + BATCH_SIZE - 1
    ELSE CatalogSize(m)

\* Destination files found on disk when scrape() starts. The whole-catalog
\* variant is started on an empty ipas directory.
InitFiles(m) ==
    IF m = "batched" THEN {NoFile, FileOf(0), FileOf(PayloadLen)}
    ELSE {NoFile}

\* ------------------------------------------------------------ a download
\* The skip check: fs.existsSync(outputPath) && fs.statSync(outputPath).size > 0
Skippable(f) == f.exists /\ f.size > 0

\* What the provider does to one job, the same on each of its attempts:
\*   "payload"  answers with the complete payload,
\*   "neterr"   every GET fails (connection error, non-2xx status, timeout),
\*   "empty"    answers with a payload of zero bytes,
\*   "break"    the payload stream breaks after PartialLen bytes.
\* For the gdown variants "payload" is exit code 0 and "neterr" any other.
ProviderBehaviours(m) ==
    IF m = "batched" THEN {"payload", "neterr", "empty", "break"}
    ELSE {"payload", "neterr"}

\* The whole of one download that passed the skip check, under one provider
\* behaviour: its result, the destination file it leaves, whether it issued
\* a request.
Download(b, f) ==
    CASE b = "payload" -> [res |-> "ok", file |-> FileOf(PayloadLen), calls |-> TRUE]
      [] b = "neterr"  -> [res |-> "fail", file |-> f, calls |-> TRUE]
      [] b = "empty"   -> [res |-> "fail", file |-> FileOf(0), calls |-> TRUE]
      [] b = "break"   -> [res |-> "fail", file |-> FileOf(PartialLen), calls |-> TRUE]

\* The download that returned at its skip check.
Skipped(f) == [res |-> "skip", file |-> f, calls |-> FALSE]

\* ---------------------------------------------------------- the job wrapper
JobBoundaryRethrow(res) == IF res = "fail" THEN "rejected" ELSE "fulfilled"

\* State of the promise of  async app => { try { await download; apps.push }
\* catch (err) { failedDownloads.push } } : the catch block swallows the error.
JobBoundary(res) == "fulfilled"

PushLost(arr, x) == <<x>>

\* Array.prototype.push
Push(arr, x) == Append(arr, x)

Settled(s) == s \in {"fulfilled", "rejected"}

InFlight == {j \in Jobs : job[j] \in {"skipping", "fetching"}}

\* ---------------------------------------------------------- parallelLimit
RaceWakesOnSuccess(ex) ==
    \E i \in 1 .. Len(ex) : Settled(job[ex[i]]) /\ outcome[ex[i]] # "fail"

\* await Promise.race(executing) resumes once any promise of executing has
\* settled, whether it was fulfilled or rejected.
RaceWakes(ex) == \E i \in 1 .. Len(ex) : Settled(job[ex[i]])

PromiseRace(rs) == \E i \in 1 .. Len(rs) : job[rs[i]] = "fulfilled"

\* Promise.all(results) is fulfilled once every promise is.
PromiseAll(rs) == \A i \in 1 .. Len(rs) : job[rs[i]] = "fulfilled"

\* Promise.all(results) is rejected as soon as one promise is.
PromiseAllRejects(rs) == \E i \in 1 .. Len(rs) : job[rs[i]] = "rejected"

\* pc after the body of the for-loop: the next item, or return Promise.all.
AfterItem(m, l, i) == IF i > Hi(m, l) THEN "all" ELSE "loop"

\* scrape() is suspended at an await, so other continuations may run.
Awaiting == pc \in {"race", "all", "upload"}

\* No error thrown by the call.
NoThrow == [by |-> "none", attempts |-> 0, cause |-> "none"]

\* No response read yet in the current attempt.
NoResp == [disp |-> FALSE, ctype |-> "unread", confirm |-> "none",
           href |-> "none", buffered |-> 0, follow |-> "none"]

\* No fetcher call is modelled request by request at the batch level.
FetchIdle ==
    /\ fetcher = "downloadGDrive"
    /\ fpc = "idle"
    /\ attempt = 0
    /\ dfile = NoFile
    /\ dfile0 = NoFile
    /\ gets = 0
    /\ via = "none"
    /\ streamed = 0
    /\ lastErr = "none"
    /\ quotaAt = 0
    /\ fres = "none"
    /\ urlHasId = TRUE
    /\ provider = "any"
    /\ resp = NoResp
    /\ target = "none"
    /\ waits = <<>>
    /\ failures = 0
    /\ thrown = NoThrow
    /\ outer = <<>>

\* The catalog is taken as built at the batch and at the fetch level.
CatIdle ==
    /\ names = <<>>
    /\ ipaPaths = <<>>
    /\ originalUrl = <<>>
    /\ normalized = [done |-> FALSE, url |-> <<>>, first |-> <<>>, times |-> 0]
    /\ variant = "scrape.js"

\* part_002, scrape: apps.push({ ... }) runs for every card while the page
\* is read, before runConcurrent is called; the other variants push an app
\* when its download has returned.
InitApps(m) == IF m = "concurrent" THEN [i \in 1 .. NumJobs |-> i] ELSE <<>>

Init ==
    /\ mode \in {"whole", "batched", "concurrent"}
    /\ limit \in (IF mode = "batched" THEN {BATCH_SIZE} ELSE 1 .. MaxLimit)
    /\ pc = "loop"
    /\ err = "none"
    /\ lo = 1
    /\ idx = 1
    /\ executing = <<>>
    /\ results = <<>>
    /\ job = [j \in Jobs |-> "new"]
    /\ starts = [j \in Jobs |-> 0]
    /\ outcome = [j \in Jobs |-> "none"]
    /\ prov = [j \in Jobs |-> "unknown"]
    /\ file \in [Jobs -> InitFiles(mode)]
    /\ \A j \in Jobs \ Catalog(mode) : file[j] = NoFile
    /\ file0 = file
    /\ calls = [j \in Jobs |-> FALSE]
    /\ apps = InitApps(mode)
    /\ failedDownloads = <<>>
    /\ upQueue = <<>>
    /\ uploaded = {}
    /\ manifest = <<>>
    /\ failedLog = <<>>
    /\ run = 1
    /\ prevApps = {}
    /\ prevFailed = {}
    /\ FetchIdle
    /\ CatIdle

\* One turn of the for-loop of parallelLimit up to its await:
\*   const p = fn(item); results.push(p); executing.push(p);
\*   if (executing.length >= limit) await Promise.race(executing) ...
\* fn(item) runs the download up to its first await, that is through the
\* skip check. runConcurrent does the same but for results:
\*   const p = task().then(r => results.push(r)).catch(...);
\*   executing.push(p);
\* and its downloadFile has no skip check.
Start ==
    /\ pc = "loop"
    /\ idx <= Hi(mode, lo)
    /\ LET j == idx
           ex == Push(executing, j)
       IN /\ job' = [job EXCEPT ![j] =
                        IF Skippable(file[j]) THEN "skipping" ELSE "fetching"]
          /\ starts' = [starts EXCEPT ![j] = @ + 1]
          /\ results' = IF mode = "concurrent" THEN results
                         ELSE Push(results, j)
          /\ executing' = ex
          /\ idx' = idx + 1
          /\ pc' = IF Len(ex) >= limit THEN "race"
                   ELSE AfterItem(mode, lo, idx + 1)
    /\ UNCHANGED <<mode, limit, err, lo, outcome, prov, file, file0, calls,
                   apps, failedDownloads, upQueue, uploaded, manifest,
                   failedLog, run, prevApps, prevFailed, fetchVars, catVars>>

\* The continuation of  await Promise.race(executing):  the removal loop of
\* scrape.js tests executing[i].isFulfilled / .isRejected, which no Promise
\* has, and removes nothing; then
\*   executing.splice(executing.findIndex(e => e === p), 1)
\* removes p, the promise started last (the promise of item idx - 1).
\* runConcurrent has the second statement alone.
Resume ==
    /\ pc = "race"
    /\ RaceWakes(executing)
    /\ LET p == idx - 1
       IN executing' = Splice(executing, FindIndex(executing, p, 1))
    /\ pc' = AfterItem(mode, lo, idx)
    /\ UNCHANGED <<mode, limit, err, lo, idx, results, job, starts, outcome,
                   prov, file, file0, calls, apps, failedDownloads, upQueue,
                   uploaded, manifest, failedLog, run, prevApps, prevFailed,
                   fetchVars, catVars>>

\* What the end of job j adds to apps, failedDownloads and results. In
\* runConcurrent the task catches its error and logs it, and the callback of
\* then() pushes the task's value to results.
Collect(m, arr, what, j, res) ==
    CASE m = "concurrent" -> IF what = "results" THEN Push(arr, j) ELSE arr
      [] what = "apps" -> IF res = "fail" THEN arr ELSE Push(arr, j)
      [] what = "failedDownloads" -> IF res = "fail" THEN Push(arr, j)
                                     ELSE arr
      [] OTHER -> arr

\* The download of job j ends and the rest of fn runs: apps.push(app) after
\* a return, failedDownloads.push(...) in the catch block.
Settle(j) ==
    /\ Awaiting
    /\ job[j] \in {"skipping", "fetching"}
    /\ \E b \in (IF prov[j] = "unknown" THEN ProviderBehaviours(mode)
                 ELSE {prov[j]}) :
          LET d == IF job[j] = "skipping" THEN Skipped(file[j])
                   ELSE Download(b, file[j])
          IN /\ outcome' = [outcome EXCEPT ![j] = d.res]
             /\ file' = [file EXCEPT ![j] = d.file]
             /\ calls' = [calls EXCEPT ![j] = d.calls]
             /\ prov' = [prov EXCEPT ![j] =
                            IF job[j] = "skipping" THEN @ ELSE b]
             /\ apps' = Collect(mode, apps, "apps", j, d.res)
             /\ failedDownloads' = Collect(mode, failedDownloads,
                                           "failedDownloads", j, d.res)
             /\ results' = Collect(mode, results, "results", j, d.res)
             /\ job' = [job EXCEPT ![j] = JobBoundary(d.res)]
    /\ UNCHANGED <<mode, limit, pc, err, lo, idx, executing, starts,
                   file0, upQueue, uploaded, manifest, failedLog, run,
                   prevApps, prevFailed, fetchVars, catVars>>

\* fs.writeFileSync("repo.feather.json", ... apps ...) and
\* if (failedDownloads.length > 0) fs.writeFileSync(FAILED_LOG, ...)
ManifestAppsNone(a) == <<>>

\* apps.map(a => ({ name: a.name, ... })): one entry per app, in order.
ManifestApps(a) == [i \in 1 .. Len(a) |-> a[i]]

ThrownMessageBare(e) ==
    [by |-> "downloadGDrive", attempts |-> maxAttempts, cause |-> "unknown"]

\* new Error(`Failed to download after ${maxAttempts} attempts: ` +
\*           `${lastErr && lastErr.message ? lastErr.message : lastErr}`)
ThrownMessage(e) ==
    [by |-> "downloadGDrive", attempts |-> maxAttempts, cause |-> e]

\* The error every attempt of a download ends with under provider
\* behaviour b.
ErrorOf(b) ==
    CASE b = "neterr" -> "network"
      [] b = "empty" -> "empty"
      [] b = "break" -> "stream"
      [] OTHER -> "none"

FailedEntryNoReason(m, j) == [name |-> j, url |-> j, error |-> NoThrow]

\* scrape.js: failedDownloads.push({ name: app.name, url: app.downloadURL,
\*                                  error: err.message })
\* the other variants push { name, url } alone.
FailedEntry(m, j) ==
    [name |-> j, url |-> j,
     error |-> IF m = "batched" THEN ThrownMessage(ErrorOf(prov[j]))
               ELSE NoThrow]

\* JSON.stringify(failedDownloads, null, 2)
FailedLog(m, fd) == [i \in 1 .. Len(fd) |-> FailedEntry(m, fd[i])]

WriteOut ==
    /\ manifest' = ManifestApps(apps)
    /\ failedLog' = IF Len(failedDownloads) > 0
                    THEN FailedLog(mode, failedDownloads)
                    ELSE failedLog
    /\ pc' = "written"
    /\ upQueue' = <<>>
    /\ UNCHANGED <<lo, idx, executing, results>>

\* The next turn of  for (let i = 0; i < appsToDownload.length; i += BATCH_SIZE)
\* or, after the last batch, the writing of the manifest.
NextBatch ==
    IF lo + BATCH_SIZE <= CatalogSize(mode)
    THEN /\ lo' = lo + BATCH_SIZE
         /\ idx' = lo + BATCH_SIZE
         /\ executing' = <<>>
         /\ results' = <<>>
         /\ pc' = "loop"
         /\ upQueue' = <<>>
         /\ UNCHANGED <<manifest, failedLog>>
    ELSE WriteOut

\* batch.map(a => a.ipaPath).filter(p => fs.existsSync(p))
ExistingFiles(l, h) ==
    LET F[i \in l .. (h + 1)] ==
            IF i > h THEN <<>>
            ELSE IF file[i].exists THEN <<i>> \o F[i + 1]
            ELSE F[i + 1]
    IN F[l]

\* The promises the last await of the scheduler waits for:
\*   parallelLimit:  return Promise.all(results);
\*   runConcurrent:  await Promise.all(executing); return results;
Awaited(m) == IF m = "concurrent" THEN executing ELSE results

\* Promise.all(...) settles and scrape() goes on: to its catch block when
\* parallelLimit rejected, else to the manifest (whole, concurrent) or to
\* the upload of the batch (batched).
PLReturn ==
    /\ pc = "all"
    /\ PromiseAll(Awaited(mode)) \/ PromiseAllRejects(Awaited(mode))
    /\ IF PromiseAllRejects(Awaited(mode))
       THEN /\ pc' = "fatal"
            /\ err' = "parallelLimit"
            /\ UNCHANGED <<lo, idx, executing, results, upQueue, manifest,
                           failedLog>>
       ELSE /\ err' = err
            /\ IF mode # "batched" THEN WriteOut
               ELSE LET existingFiles == ExistingFiles(lo, Hi(mode, lo))
                    IN IF Len(existingFiles) > 0
                       THEN /\ pc' = "upload"
                            /\ upQueue' = existingFiles
                            /\ UNCHANGED <<lo, idx, executing, results,
                                           manifest, failedLog>>
                       ELSE NextBatch
    /\ UNCHANGED <<mode, limit, job, starts, outcome, prov, file, file0,
                   calls, apps, failedDownloads, uploaded, run, prevApps,
                   prevFailed, fetchVars, catVars>>

\* uploadBatch: gh release upload of the next file closes, with exit code 0
\* (ok) or not; a failed upload rejects uploadBatch and scrape() ends in its
\* catch block with process.exit(1).
UploadStep ==
    /\ pc = "upload"
    /\ \E ok \in BOOLEAN :
          IF ok
          THEN /\ uploaded' = uploaded \cup {Head(upQueue)}
               /\ err' = err
               /\ IF Len(upQueue) > 1
                  THEN /\ upQueue' = Tail(upQueue)
                       /\ UNCHANGED <<pc, lo, idx, executing, results,
                                      manifest, failedLog>>
                  ELSE NextBatch
          ELSE /\ pc' = "fatal"
               /\ err' = "upload"
               /\ UNCHANGED <<uploaded, upQueue, lo, idx, executing, results,
                              manifest, failedLog>>
    /\ UNCHANGED <<mode, limit, job, starts, outcome, prov, file, file0,
                   calls, apps, failedDownloads, run, prevApps, prevFailed,
                   fetchVars, catVars>>

Next ==
    \/ Start
    \/ Resume
    \/ \E j \in Jobs : Settle(j)
    \/ PLReturn
    \/ UploadStep

Spec == Init /\ [][Next]_vars

\* scrape() is run again on the files the first run left (a second
\* invocation of the script): every variable of the process starts afresh,
\* the ipas directory and the provider's behaviour stay.
Rerun ==
    /\ pc = "written"
    /\ run = 1
    /\ run' = 2
    /\ prevApps' = Range(apps)
    /\ prevFailed' = Range(failedDownloads)
    /\ pc' = "loop"
    /\ lo' = 1
    /\ idx' = 1
    /\ executing' = <<>>
    /\ results' = <<>>
    /\ job' = [j \in Jobs |-> "new"]
    /\ starts' = [j \in Jobs |-> 0]
    /\ outcome' = [j \in Jobs |-> "none"]
    /\ calls' = [j \in Jobs |-> FALSE]
    /\ file0' = file
    /\ apps' = InitApps(mode)
    /\ failedDownloads' = <<>>
    /\ upQueue' = <<>>
    /\ uploaded' = {}
    /\ manifest' = <<>>
    /\ UNCHANGED <<mode, limit, err, prov, file, failedLog, fetchVars, catVars>>

NextTwice == Next \/ Rerun

\* Two runs of scrape() in succession.
SpecTwice == Init /\ [][NextTwice]_vars

\* Every started download eventually settles, and the event loop runs every
\* continuation that is ready.
FairSpec ==
    /\ Spec
    /\ WF_vars(Start)
    /\ WF_vars(Resume)
    /\ \A j \in Jobs : WF_vars(Settle(j))

\* The event loop also runs the continuation of parallelLimit's return, and
\* every gh process started by uploadBatch closes.
FairScrape == FairSpec /\ WF_vars(PLReturn) /\ WF_vars(UploadStep)

\* ===================================================================== fetch
\* One call of the fetcher, request by request. The provider's answers are
\* drawn afresh at every step, unless provider = "selfRef": that provider
\* answers every request with status 200, text/html and a page that carries
\* a confirm token.

\* The batch level stands still while one call is followed.
BatchIdle ==
    /\ mode = "batched"
    /\ limit = BATCH_SIZE
    /\ pc = "idle"
    /\ err = "none"
    /\ lo = 1
    /\ idx = 1
    /\ executing = <<>>
    /\ results = <<>>
    /\ job = [j \in Jobs |-> "new"]
    /\ starts = [j \in Jobs |-> 0]
    /\ outcome = [j \in Jobs |-> "none"]
    /\ prov = [j \in Jobs |-> "unknown"]
    /\ file = [j \in Jobs |-> NoFile]
    /\ file0 = file
    /\ calls = [j \in Jobs |-> FALSE]
    /\ apps = <<>>
    /\ failedDownloads = <<>>
    /\ upQueue = <<>>
    /\ uploaded = {}
    /\ manifest = <<>>
    /\ failedLog = <<>>
    /\ run = 1
    /\ prevApps = {}
    /\ prevFailed = {}

InitFetch ==
    /\ BatchIdle
    /\ CatIdle
    /\ fetcher \in {"downloadGDrive", "downloadFile", "downloadFromGDrive",
                    "downloadFile_001"}
    /\ provider \in (IF fetcher = "downloadFile" THEN {"any", "selfRef"}
                     ELSE {"any"})
    /\ fpc = "entry"
    /\ attempt = 0
    /\ dfile \in {NoFile, FileOf(0), FileOf(PayloadLen)}
    /\ dfile0 = dfile
    /\ gets = 0
    /\ via = "none"
    /\ streamed = 0
    /\ lastErr = "none"
    /\ quotaAt = 0
    /\ fres = "none"
    /\ urlHasId \in BOOLEAN
    /\ resp = NoResp
    /\ target = "none"
    /\ waits = <<>>
    /\ failures = 0
    /\ thrown = NoThrow
    /\ outer = <<>>

SkipCheckNever(f) == FALSE

\* if (fs.existsSync(outputPath) && fs.statSync(outputPath).size > 0) return;
\* the same test opens downloadFile of part_002.
SkipCheck(f) == Skippable(f)

\* part_001, the main loop:  if (!fs.existsSync(ipaPath)) { await
\* downloadFromGDrive(app.id, ipaPath); } else { console.log("Skipping ...") }
ExistsCheck(f) == f.exists

\* The test that makes the fetcher fn leave the destination f as it is:
\* downloadFile of part_001 has none.
EntryCheck(fn, f) ==
    CASE fn = "downloadFromGDrive" -> ExistsCheck(f)
      [] fn = "downloadFile_001" -> FALSE
      [] OTHER -> SkipCheck(f)

\* createWriteStream(targetPath) opens downloadFile of part_001 before any
\* request: the destination is created, or emptied.
Opened(fn, f) == IF fn = "downloadFile_001" THEN FileOf(0) ELSE f

\* The entry of the fetcher: the skip check, and when it does not return,
\* the first turn of the attempt loop up to its await, which issues the
\* first GET (downloadFromGDrive: spawns gdown).
Call ==
    /\ fpc = "entry"
    /\ IF EntryCheck(fetcher, dfile)
       THEN /\ fpc' = "done"
            /\ fres' = "skipped"
            /\ UNCHANGED <<attempt, gets, dfile>>
       ELSE /\ fpc' = IF fetcher = "downloadFromGDrive" THEN "gdown"
                      ELSE "get"
            /\ attempt' = 1
            /\ gets' = 1
            /\ fres' = fres
            /\ dfile' = Opened(fetcher, dfile)
    /\ UNCHANGED <<callVars, via, streamed, lastErr, quotaAt, thrown,
                   gdriveVars, nestVars, batchVars, catVars>>

IsPayloadDispOnly(disp, ctype) == disp

\* if (contentDisp || (contentType && !contentType.includes("html")))
IsPayload(disp, ctype) == disp \/ (ctype # "none" /\ ctype # "html")

\* What the header test of downloadGDrive reads of a response.
Headers(disp, ctype) ==
    [disp |-> disp, ctype |-> ctype, confirm |-> "none", href |-> "none",
     buffered |-> 0, follow |-> "none"]

\* What the two searches of downloadGDrive can tell of a buffered page.
\*   confirm: "amp"  the page holds confirm=T followed by & or &amp;
\*            "bare" the page holds confirm=T followed by anything else
\*                   (a quote, the end of the text),
\*            "none" the page holds no confirm=T;
\*   href:    whose file id the first href="/uc?export=download..." of the
\*            page carries: the job's own, another one, or no such href.
Pages == [confirm : {"none", "amp", "bare"}, href : {"none", "own", "other"}]

\* htmlBody.match(/confirm=([0-9A-Za-z_-]+)&amp;/)
\*   || htmlBody.match(/confirm=([0-9A-Za-z_-]+)&/)
ConfirmToken(page) == page.confirm = "amp"

\* htmlBody.match(/href="(\/uc\?export=download[^"]+)"/)
HrefMatch(page) == page.href # "none"

BackoffFlat(k) == 1000

\* setTimeout(r, 1000 * attempt)
Backoff(k) == 1000 * k

\* downloadGDrive: catch (err) { lastErr = err; ...; await setTimeout(...) }
GCatch(e) ==
    /\ lastErr' = e
    /\ fpc' = "backoff"
    /\ waits' = Append(waits, Backoff(attempt))
    /\ failures' = failures + 1
    /\ UNCHANGED <<attempt, fres, thrown>>

GFollowNewAttempt(how, t) ==
    /\ fpc' = "follow"
    /\ via' = how
    /\ target' = t
    /\ gets' = gets + 1
    /\ attempt' = attempt + 1
    /\ UNCHANGED <<lastErr, fres, thrown, waits, failures>>

\* downloadGDrive: the follow-up GET of the attempt is issued, to file id t.
GFollow(how, t) ==
    /\ fpc' = "follow"
    /\ via' = how
    /\ target' = t
    /\ gets' = gets + 1
    /\ UNCHANGED <<attempt, lastErr, fres, thrown, waits, failures>>

\* downloadGDrive: the response to the first GET of the attempt arrives (or
\* axios.get throws: connection error, non-2xx status, timeout). A payload
\* response starts streaming; any other is buffered (bodyOk: its stream ends
\* without an error) and searched for a confirm token, then for a download
\* href, and the follow-up GET is issued. The buffering is
\*   for await (const chunk of res.data) chunks.push(chunk);
\* every one of the len chunks of the body is kept.
GResponse ==
    /\ fetcher = "downloadGDrive"
    /\ fpc = "get"
    /\ \E net \in {"ok", "err"}, disp \in BOOLEAN,
          ctype \in {"none", "html", "other"}, page \in Pages,
          bodyOk \in BOOLEAN, len \in 0 .. MaxBody :
          /\ (len = 0) => (page.confirm = "none" /\ page.href = "none")
          /\ IF net = "err"
             THEN GCatch("network") /\ UNCHANGED <<gets, via, resp, target>>
             ELSE IF IsPayload(disp, ctype)
             THEN /\ fpc' = "stream"
                  /\ via' = "direct"
                  /\ resp' = Headers(disp, ctype)
                  /\ UNCHANGED <<attempt, gets, lastErr, fres, thrown, waits,
                                 failures, target>>
             ELSE IF ~bodyOk
             THEN /\ resp' = Headers(disp, ctype)
                  /\ GCatch("network")
                  /\ UNCHANGED <<gets, via, target>>
             ELSE /\ resp' = [disp |-> disp, ctype |-> ctype,
                              confirm |-> page.confirm, href |-> page.href,
                              buffered |-> len, follow |-> "none"]
                  /\ IF ConfirmToken(page)
                     THEN IF urlHasId
                          THEN GFollow("confirm", "own")
                          ELSE GCatch("no file id")
                               /\ UNCHANGED <<gets, via, target>>
                     ELSE IF HrefMatch(page)
                     THEN GFollow("href", page.href)
                     ELSE GCatch("no token or link")
                          /\ UNCHANGED <<gets, via, target>>
    /\ UNCHANGED <<callVars, dfile, streamed, quotaAt, nestVars, batchVars,
                   catVars>>

\* downloadGDrive: the response to the follow-up GET (forcedUrl / confirmUrl)
\* arrives and is piped to the destination whatever its headers say, or
\* axios.get throws. The response is a payload or one more HTML page
\* (kind): the code reads neither res2.headers nor res3.headers.
GFollowUp ==
    /\ fetcher = "downloadGDrive"
    /\ fpc = "follow"
    /\ \E net \in {"ok", "err"}, kind \in {"payload", "html"} :
          IF net = "err"
          THEN GCatch("network") /\ UNCHANGED resp
          ELSE /\ fpc' = "stream"
               /\ resp' = [resp EXCEPT !.follow = kind]
               /\ UNCHANGED <<attempt, lastErr, fres, thrown, waits,
                              failures>>
    /\ UNCHANGED <<callVars, dfile, gets, via, streamed, quotaAt,
                   target, nestVars, batchVars, catVars>>

SanityCheckExists(f) == f.exists

\* if (fs.existsSync(outputPath) && fs.statSync(outputPath).size > 0) return;
\* else throw new Error("Downloaded file seems empty ...")
SanityCheck(f) == f.exists /\ f.size > 0

\* The destination after a stream that broke with k bytes written:
\* fs.createWriteStream(outputPath) truncates the file when it opens it, and
\* nothing removes it afterwards. A stream that breaks before the file is
\* opened leaves the previous file.
BrokenStreamFiles(k, f) == IF k = 0 THEN {FileOf(0), f} ELSE {FileOf(k)}

\* downloadGDrive: streamPipeline(res.data, fs.createWriteStream(outputPath))
\*   "end":   the body of k bytes went through and the size check runs;
\*   "break": the stream broke after k bytes of a longer body;
\*   "stall": after k bytes the provider sends nothing more and keeps the
\*            connection open. The timeout option of axios.get bounds the
\*            wait for the response; whether it still acts once the response
\*            object has been handed over depends on the axios release (0.x
\*            aborts the request, 1.x returns from the handler once the
\*            request promise has settled), so both ends are possible: the
\*            stream breaks, or streamPipeline never settles.
GStreamEnd ==
    /\ fetcher = "downloadGDrive"
    /\ fpc = "stream"
    /\ \E k \in 0 .. PayloadLen, how \in {"end", "break", "stall"} :
          CASE how = "end" ->
                 /\ dfile' = FileOf(k)
                 /\ streamed' = k
                 /\ IF SanityCheck(FileOf(k))
                    THEN /\ fpc' = "done"
                         /\ fres' = "downloaded"
                         /\ UNCHANGED <<attempt, lastErr, thrown, waits,
                                        failures>>
                    ELSE GCatch("empty")
            [] how = "break" ->
                 /\ k < PayloadLen
                 /\ dfile' \in BrokenStreamFiles(k, dfile)
                 /\ streamed' = streamed
                 /\ GCatch("stream")
            [] how = "stall" ->
                 /\ k < PayloadLen
                 /\ dfile' = FileOf(k)
                 /\ streamed' = streamed
                 /\ fpc' = "done"
                 /\ fres' = "stalled"
                 /\ UNCHANGED <<attempt, lastErr, thrown, waits, failures>>
    /\ UNCHANGED <<callVars, gets, via, quotaAt, resp, target, nestVars,
                   batchVars, catVars>>

\* throw err: the error caught is thrown again as it is.
Rethrow(e) == [by |-> "rethrow", attempts |-> 0, cause |-> e]

\* downloadGDrive: the backoff timer of the catch block fires and the loop
\* goes on: the next attempt issues its GET, or after the last attempt
\*   throw new Error(`Failed to download after ${maxAttempts} attempts ...`)
GBackoff ==
    /\ fetcher = "downloadGDrive"
    /\ fpc = "backoff"
    /\ IF attempt < maxAttempts
       THEN /\ attempt' = attempt + 1
            /\ gets' = gets + 1
            /\ fpc' = "get"
            /\ via' = "none"
            /\ resp' = NoResp
            /\ target' = "none"
            /\ UNCHANGED <<fres, thrown>>
       ELSE /\ fpc' = "done"
            /\ fres' = "failed"
            /\ thrown' = ThrownMessage(lastErr)
            /\ UNCHANGED <<attempt, gets, via, resp, target>>
    /\ UNCHANGED <<callVars, dfile, streamed, lastErr, quotaAt, waits,
                   failures, nestVars, batchVars, catVars>>

\* The GET counter of a downloadFile call stops at MaxGets, which stands
\* for "MaxGets or more": the loops of downloadFile go on.
Count(n) == IF n < MaxGets THEN n + 1 ELSE n

\* downloadFile: catch (err) { ...; if (attempt === MAX_RETRIES) throw err; }
\* and otherwise the next turn of the attempt loop, which issues its GET.
FCatch(e) ==
    /\ lastErr' = e
    /\ IF attempt = MAX_RETRIES
       THEN /\ fpc' = "done"
            /\ fres' = "failed"
            /\ thrown' = Rethrow(e)
            /\ UNCHANGED <<attempt, gets, via>>
       ELSE /\ fpc' = "get"
            /\ attempt' = attempt + 1
            /\ gets' = Count(gets)
            /\ via' = "none"
            /\ UNCHANGED <<fres, thrown>>

\* downloadFile: continue;  the while (true) loop issues the next GET, to
\* the confirm URL or to the Location of a redirect. No counter and no test
\* limits the turns of this loop.
FContinue(how) ==
    /\ gets' = Count(gets)
    /\ fpc' = "get"
    /\ via' = how
    /\ UNCHANGED <<attempt, lastErr, fres, thrown>>

\* downloadFile: the request answered is the first of its attempt unless a
\* continue issued it.
Answered == IF via = "none" THEN "direct" ELSE via

\* downloadFile: the response of axios({ ..., validateStatus: () => true })
\* arrives, or the request throws. status 200 with text/html goes on to the
\* reading of the page; a 3xx status is followed by hand; any other non-200
\* status throws; the rest is piped to the destination.
FResponse ==
    /\ fetcher = "downloadFile"
    /\ fpc = "get"
    /\ \E net \in {"ok", "err"}, status \in {"200", "3xx", "other"},
          html \in BOOLEAN, location \in BOOLEAN :
          /\ provider = "selfRef" => (net = "ok" /\ status = "200" /\ html)
          /\ IF net = "err" THEN FCatch("network")
             ELSE IF status = "200" /\ html
             THEN /\ fpc' = "page"
                  /\ via' = Answered
                  /\ UNCHANGED <<attempt, gets, lastErr, fres, thrown>>
             ELSE IF status = "3xx"
             THEN IF location THEN FContinue("redirect")
                  ELSE FCatch("redirect with no location")
             ELSE IF status # "200" THEN FCatch("http status")
             ELSE /\ fpc' = "stream"
                  /\ via' = Answered
                  /\ UNCHANGED <<attempt, gets, lastErr, fres, thrown>>
    /\ UNCHANGED <<callVars, dfile, streamed, quotaAt, gdriveVars, nestVars,
                   batchVars, catVars>>

\* downloadFile: for await (const chunk of response.data) body += chunk  has
\* read the page (or the stream threw); the page is searched for a confirm
\* token, then for "quota exceeded".
FPage ==
    /\ fetcher = "downloadFile"
    /\ fpc = "page"
    /\ \E body \in {"confirm", "quota", "plain", "error"} :
          /\ provider = "selfRef" => body = "confirm"
          /\ CASE body = "error" -> FCatch("network")
               [] body = "confirm" -> FContinue("confirm")
               [] body = "quota" -> FCatch("quota exceeded")
               [] body = "plain" -> FCatch("unexpected html")
          /\ quotaAt' = IF body = "quota" THEN gets ELSE quotaAt
    /\ UNCHANGED <<callVars, dfile, streamed, gdriveVars, nestVars, batchVars,
                   catVars>>

\* downloadFile: response.data.pipe(fs.createWriteStream(targetPath)) ends.
\*   "finish": the body of k bytes was written, file.close(resolve), return;
\*   "error" on the file: fs.unlink(targetPath) and reject;
\*   the response stream breaks: pipe() neither ends nor destroys the file
\*   stream, so neither "finish" nor "error" comes and the call never settles.
FStreamEnd ==
    /\ fetcher = "downloadFile"
    /\ fpc = "stream"
    /\ \E k \in 0 .. PayloadLen, how \in {"finish", "fileError", "break"} :
          CASE how = "finish" ->
                 /\ dfile' = FileOf(k)
                 /\ streamed' = k
                 /\ fpc' = "done"
                 /\ fres' = "downloaded"
                 /\ UNCHANGED <<attempt, gets, via, lastErr, thrown>>
            [] how = "fileError" ->
                 /\ dfile' = NoFile
                 /\ streamed' = streamed
                 /\ FCatch("file")
            [] how = "break" ->
                 /\ k < PayloadLen
                 /\ dfile' = FileOf(k)
                 /\ streamed' = streamed
                 /\ fpc' = "done"
                 /\ fres' = "stalled"
                 /\ UNCHANGED <<attempt, gets, via, lastErr, thrown>>
    /\ UNCHANGED <<callVars, quotaAt, gdriveVars, nestVars, batchVars, catVars>>

\* part_001, downloadFromGDrive: the gdown process exits.
\*   if (code === 0 && fs.existsSync(outputPath)) resolve(); else reject(...)
\* The main loop catches the rejection and goes to the next app.
GdownExit ==
    /\ fetcher = "downloadFromGDrive"
    /\ fpc = "gdown"
    /\ \E code \in {0, 1}, written \in BOOLEAN :
          /\ dfile' = IF written THEN FileOf(PayloadLen) ELSE dfile
          /\ streamed' = IF written THEN PayloadLen ELSE streamed
          /\ IF code = 0 /\ dfile'.exists
             THEN fres' = "downloaded" /\ UNCHANGED <<lastErr, thrown>>
             ELSE /\ fres' = "failed"
                  /\ lastErr' = "gdown"
                  /\ thrown' = [by |-> "downloadFromGDrive", attempts |-> 0,
                                cause |-> "gdown"]
    /\ fpc' = "done"
    /\ UNCHANGED <<callVars, attempt, gets, via, quotaAt, gdriveVars, nestVars,
                   batchVars, catVars>>

\* part_001, downloadFile: an attempt of the call whose counter is a has
\* failed, under the waiting calls st.
\*   catch (err) { ...; if (attempt === MAX_RETRIES) throw err; }
\* The call goes to its next attempt; after its last attempt it throws, and
\* the promise of the attempt of the call that made it, resolved with this
\* call, rejects in turn.
RECURSIVE Unwind(_, _)
Unwind(st, a) ==
    IF a < MAX_RETRIES
    THEN [outer |-> st, attempt |-> a + 1, thrown |-> FALSE]
    ELSE IF st = <<>>
    THEN [outer |-> st, attempt |-> a, thrown |-> TRUE]
    ELSE Unwind(SubSeq(st, 1, Len(st) - 1), st[Len(st)])

\* part_001, downloadFile: the answer to the https.get of the attempt.
\*   "confirm": status 200, text/html and a body matching confirm=T&amp;id=:
\*              resolve(downloadFile(newUrl, targetPath)), a new call with an
\*              attempt loop of its own, which opens the destination again;
\*   "fail":    a request error (the destination is unlinked), a status
\*              other than 200 or an HTML page with no token: reject;
\*   "payload": the body of k bytes is piped, "finish" resolves and every
\*              waiting call returns.
\* failures counts the requests that failed.
NestedResponse ==
    /\ fetcher = "downloadFile_001"
    /\ fpc = "get"
    /\ \E ans \in {"confirm", "fail", "payload"}, k \in 0 .. PayloadLen,
          unlinked \in BOOLEAN :
          CASE ans = "confirm" ->
                 /\ Len(outer) < MaxDepth
                 /\ outer' = Append(outer, attempt)
                 /\ attempt' = 1
                 /\ gets' = Count(gets)
                 /\ via' = "confirm"
                 /\ dfile' = FileOf(0)
                 /\ UNCHANGED <<fpc, fres, lastErr, thrown, failures,
                                streamed>>
            [] ans = "fail" ->
                 LET u == Unwind(outer, attempt)
                 IN /\ failures' = failures + 1
                    /\ lastErr' = "network"
                    /\ outer' = u.outer
                    /\ attempt' = u.attempt
                    /\ dfile' = IF u.thrown
                                THEN (IF unlinked THEN NoFile ELSE dfile)
                                ELSE FileOf(0)
                    /\ IF u.thrown
                       THEN /\ fpc' = "done"
                            /\ fres' = "failed"
                            /\ thrown' = Rethrow("network")
                            /\ UNCHANGED <<gets, via>>
                       ELSE /\ gets' = Count(gets)
                            /\ via' = "none"
                            /\ UNCHANGED <<fpc, fres, thrown>>
                    /\ UNCHANGED streamed
            [] ans = "payload" ->
                 /\ dfile' = FileOf(k)
                 /\ streamed' = k
                 /\ fpc' = "done"
                 /\ fres' = "downloaded"
                 /\ outer' = <<>>
                 /\ UNCHANGED <<attempt, gets, via, lastErr, thrown, failures>>
    /\ UNCHANGED <<callVars, quotaAt, resp, target, waits, batchVars, catVars>>

NextFetch ==
    \/ Call
    \/ GResponse
    \/ GFollowUp
    \/ GStreamEnd
    \/ GBackoff
    \/ FResponse
    \/ FPage
    \/ FStreamEnd
    \/ GdownExit
    \/ NestedResponse

SpecFetch == InitFetch /\ [][NextFetch]_vars

\* Every await of the call settles when it can: a response or its timeout,
\* the end of a stream, the backoff timer.
FairFetch == SpecFetch /\ WF_vars(NextFetch)

\* ------------------------------------------- the two levels agree
\* What the skip check and the sanity check can tell of a file.
FileClass(f) ==
    IF ~f.exists THEN "absent" ELSE IF f.size = 0 THEN "empty" ELSE "nonempty"

BatchResultOf(r) ==
    CASE r = "skipped" -> "skip"
      [] r = "downloaded" -> "ok"
      [] r = "failed" -> "fail"
      [] OTHER -> "none"

\* Every end of a downloadGDrive call is, up to the size of a non-empty
\* file, the end the batch level gives a download under some provider
\* behaviour (invariant of SpecFetch).
DownloadCoversFetch ==
    (fetcher = "downloadGDrive" /\ fpc = "done" /\ fres # "stalled") =>
        \E b \in ProviderBehaviours("batched") :
            LET d == IF Skippable(dfile0) THEN Skipped(dfile0)
                     ELSE Download(b, dfile0)
            IN /\ d.res = BatchResultOf(fres)
               /\ FileClass(d.file) = FileClass(dfile)
               /\ d.calls = (gets > 0)

\* A downloadGDrive call ending as the batch level says it ends under
\* provider behaviour b, on a destination that did not exist (each is
\* reachable in SpecFetch).
FetchShows(b) ==
    /\ fetcher = "downloadGDrive"
    /\ fpc = "done"
    /\ dfile0 = NoFile
    /\ BatchResultOf(fres) = Download(b, dfile0).res
    /\ dfile = Download(b, dfile0).file


\* =================================================================== catalog
\* The building of appsToDownload from the .app-card elements, and the
\* normalization of a card's href at the entry of downloadGDrive.
\*
\* Text is kept as a sequence of pieces. A piece is a literal, or a run: a
\* maximal stretch of letters, digits, '_' and '-' of a stated length. The
\* literals used here hold no stretch of 10 or more such characters.
Lit(t) == [kind |-> "lit", text |-> t, len |-> 0]

Run(t, n) == [kind |-> "run", text |-> t, len |-> n]

\* A value that is not a string.
NonString(t) == [kind |-> "nonstring", text |-> t, len |-> 0]

\* null, and a value that is neither a string nor falsy.
Null == <<NonString("null")>>
Number42 == <<NonString("42")>>

\* {10,} in the six patterns of googleDriveDirectLink
MinIdLen == 10

\* {25,} in the fallback pattern
AltIdLen == 25

\* The identifiers tried: shorter than MinIdLen (the ABC123 of the share-link
\* example), of MinIdLen, of AltIdLen.
IdRuns == { Run("ABC123", 6),
            Run("ABCDEFGHIJ", MinIdLen),
            Run("ABCDEFGHIJKLMNOPQRSTUVWXY", AltIdLen) }

DriveHost == Lit("https://drive.google.com")

\* `https://docs.google.com/uc?export=download&id=${id}`
DirectLink(id) == <<Lit("https://docs.google.com/uc?export=download&id="), id>>

FileViewLink(id) == <<DriveHost, Lit("/file/d/"), id, Lit("/view")>>

FolderLink(id) == <<DriveHost, Lit("/drive/folders/"), id>>

\* The hrefs tried as originalUrl.
Links ==
    UNION { { FileViewLink(id),
              FileViewLink(id) \o <<Lit("?usp=sharing")>>,
              <<DriveHost, Lit("/open?id="), id>>,
              <<DriveHost, Lit("/open%3Fid%3D"), id>>,
              <<DriveHost, Lit("/uc?id="), id, Lit("&export=download")>>,
              FolderLink(id),
              DirectLink(id),
              <<Lit("https://example.com/releases/"), id, Lit(".ipa")>>,
              <<DriveHost, Lit("/file/d/"), id, Lit("%")>>,
              <<DriveHost, Lit("/uc?export=download&amp;id="), id>> } :
            id \in IdRuns }
    \cup { <<>>, <<Lit("https://example.com/app.ipa")>>,
           <<Lit("https://example.com/get"), Lit("?a=1&amp;amp;b=2")>>,
           Null, Number42 }

\* The hrefs part_003 hands to its googleDriveDirectLink:
\* $(el).find(".app-actions a.app-action.primary").attr("href") || ""  is
\* a string.
Links_003 == Links \ {Null, Number42}

\* decodeURIComponent throws URIError on a '%' that starts no escape.
Malformed(url) == \E i \in 1 .. Len(url) : url[i].text = "%"

\* decodeURIComponent(url)
Decode(url) ==
    [i \in 1 .. Len(url) |->
        IF url[i].text = "/open%3Fid%3D" THEN Lit("/open?id=") ELSE url[i]]

\* The patterns, in the order of the array, whose literal part a literal
\* ends with:  1 /file/d/   2 id=   3 /d/   4 open?id=   5 /uc?id=
\*             6 /drive/folders/
PatternsEndingAt(t) ==
    CASE t = "/file/d/" -> {1, 3}
      [] t = "/open?id=" -> {2, 4}
      [] t = "/uc?id=" -> {2, 5}
      [] t = "https://docs.google.com/uc?export=download&id=" -> {2}
      [] t = "/drive/folders/" -> {6}
      [] OTHER -> {}

\* Positions of the runs that decoded.match(patterns[k]) can capture.
Captures(decoded, k) ==
    {i \in 2 .. Len(decoded) :
        /\ decoded[i].kind = "run"
        /\ decoded[i].len >= MinIdLen
        /\ decoded[i - 1].kind = "lit"
        /\ k \in PatternsEndingAt(decoded[i - 1].text)}

\* Positions of the runs decoded.match(/[-\w]{25,}/) can match.
AltMatches(decoded) ==
    {i \in 1 .. Len(decoded) :
        decoded[i].kind = "run" /\ decoded[i].len >= AltIdLen}

Min(S) == CHOOSE x \in S : \A y \in S : x <= y

googleDriveDirectLinkOrNull(url) ==
    IF url = <<>> \/ url[1].kind = "nonstring" THEN url
    ELSE IF Malformed(url) THEN url
    ELSE LET decoded == Decode(url)
             hits == {k \in 1 .. 6 : Captures(decoded, k) # {}}
         IN IF hits # {}
            THEN DirectLink(decoded[Min(Captures(decoded, Min(hits)))])
            ELSE IF AltMatches(decoded) # {}
            THEN DirectLink(decoded[Min(AltMatches(decoded))])
            ELSE Null

\* googleDriveDirectLink(url): a falsy or non-string url comes back as it
\* is, and so does a url decodeURIComponent throws on (catch). Otherwise
\* the first pattern that matches gives the id (its leftmost match), then
\* the fallback pattern, else the url as it came.
googleDriveDirectLink(url) ==
    IF url = <<>> \/ url[1].kind = "nonstring" THEN url
    ELSE IF Malformed(url) THEN url
    ELSE LET decoded == Decode(url)
             hits == {k \in 1 .. 6 : Captures(decoded, k) # {}}
         IN IF hits # {}
            THEN DirectLink(decoded[Min(Captures(decoded, Min(hits)))])
            ELSE IF AltMatches(decoded) # {}
            THEN DirectLink(decoded[Min(AltMatches(decoded))])
            ELSE url

\* part_003: str.replace(/&amp;/g, "&")  puts & for every &amp; of the text
\* as it stands: the amp; of &amp;amp; is left behind the new &.
decodeHtmlEntities(url) ==
    [i \in 1 .. Len(url) |->
        CASE url[i].text = "?a=1&amp;amp;b=2" -> Lit("?a=1&amp;b=2")
          [] url[i].text = "?a=1&amp;b=2" -> Lit("?a=1&b=2")
          [] url[i].text = "/uc?export=download&amp;id=" ->
                 Lit("/uc?export=download&id=")
          [] OTHER -> url[i]]

\* part_003: `https://drive.google.com/uc?export=download&id=${fileId}`
DirectLink_003(id) ==
    <<Lit("https://drive.google.com/uc?export=download&id="), id>>

\* part_003: the literals that end with /d/, ?id= or &id=, after which
\* /\/d\/([a-zA-Z0-9_-]+)|[?&]id=([a-zA-Z0-9_-]+)/ captures a run of any
\* length.
IdIntro(t) ==
    t \in {"/file/d/", "/open?id=", "/uc?id=", "/uc?export=download&id=",
           "https://docs.google.com/uc?export=download&id=",
           "https://drive.google.com/uc?export=download&id="}

\* part_003: googleDriveDirectLink(url). Without a file id the url comes
\* back with its entities decoded.
googleDriveDirectLink_003(url) ==
    IF url = <<>> THEN url
    ELSE LET decoded == decodeHtmlEntities(url)
             caps == {i \in 2 .. Len(decoded) :
                         /\ decoded[i].kind = "run"
                         /\ decoded[i - 1].kind = "lit"
                         /\ IdIntro(decoded[i - 1].text)}
         IN IF caps # {} THEN DirectLink_003(decoded[Min(caps)])
            ELSE decoded

\* The googleDriveDirectLink of the variant.
LinkOf(v, url) ==
    IF v = "part_003" THEN googleDriveDirectLink_003(url)
    ELSE googleDriveDirectLink(url)

\* The characters tried in names: a letter, a character outside the safe
\* set, and the replacement character itself.
NameChars == {"a", "+", "_"}

\* Longest data-name tried, in characters.
NameLen == 2

Names == UNION {[1 .. n -> NameChars] : n \in 1 .. NameLen}

\* The two .app-card elements of the page.
Cards == 1 .. 2

\* /[^a-z0-9\-_.]/gi  leaves letters, digits, '-', '_' and '.'
SafeChar(c) == c \in {"a", "_", "-", ".", "0"}

\* name.replace(/[^a-z0-9\-_.]/gi, "_")
SafeName(name) ==
    [i \in 1 .. Len(name) |-> IF SafeChar(name[i]) THEN name[i] ELSE "_"]

\* path.join(IPA_DIR, `${safeName}.ipa`)
IpaPath(name) == <<"ipas", "/">> \o SafeName(name) \o <<".ipa">>

NotNormalized == [done |-> FALSE, url |-> <<>>, first |-> <<>>, times |-> 0]

InitCatalog ==
    /\ BatchIdle
    /\ FetchIdle
    /\ names \in [Cards -> Names]
    /\ ipaPaths = <<>>
    /\ variant \in {"scrape.js", "part_003"}
    /\ originalUrl \in (IF variant = "part_003" THEN Links_003 ELSE Links)
    /\ normalized = NotNormalized

\* const appsToDownload = appCards.map(el => { ...; return { ..., ipaPath } })
BuildCatalog ==
    /\ names # <<>>
    /\ ipaPaths = <<>>
    /\ ipaPaths' = [i \in Cards |-> IpaPath(names[i])]
    /\ UNCHANGED <<names, originalUrl, normalized, variant, batchVars,
                   fetchVars>>

\* downloadGDrive: const normalized = googleDriveDirectLink(originalUrl)
\* part_003: downloadURL = googleDriveDirectLink(downloadURL)
Normalize ==
    /\ ipaPaths # <<>>
    /\ ~normalized.done
    /\ normalized' = [done |-> TRUE, url |-> LinkOf(variant, originalUrl),
                      first |-> LinkOf(variant, originalUrl), times |-> 1]
    /\ UNCHANGED <<names, ipaPaths, originalUrl, variant, batchVars,
                   fetchVars>>

\* googleDriveDirectLink is applied to what it returned.
Renormalize ==
    /\ normalized.times = 1
    /\ normalized' = [normalized EXCEPT !.url = LinkOf(variant, @),
                                        !.times = 2]
    /\ UNCHANGED <<names, ipaPaths, originalUrl, variant, batchVars,
                   fetchVars>>

NextCatalog == BuildCatalog \/ Normalize \/ Renormalize

SpecCatalog == InitCatalog /\ [][NextCatalog]_vars


\* ------------------------------------------------------------------ claims

\* C1: in the whole-catalog variant the number of fn invocations started and
\* not yet settled never exceeds limit.
C1_AtMostLimitInFlight ==
    mode = "whole" => Cardinality(InFlight) <= limit

\* C2: scrape() is past the return of parallelLimit (uploading the batch, or
\* manifest written) only when no started job is still in flight, and the
\* manifest is written only when every job of the catalog has settled.
C2_ReturnsAfterAllSettled ==
    mode \in {"whole", "batched"} =>
        /\ pc \in {"upload", "written"} => InFlight = {}
        /\ pc = "written" =>
              \A j \in Catalog(mode) : Settled(job[j]) /\ outcome[j] # "none"

C2_Witness ==
    /\ pc = "written"
    /\ mode = "whole"
    /\ limit = 2
    /\ \E j, k \in Jobs : outcome[j] = "fail" /\ outcome[k] = "ok"

\* C3: in the batched variant apps and failedDownloads together hold exactly
\* one entry per settled job, no job is in both or twice in one, and when the
\* batch loop has ended they partition the catalog.
C3_OutcomesPartitionJobs ==
    mode = "batched" =>
        /\ Len(apps) + Len(failedDownloads)
              = Cardinality({j \in Jobs : Settled(job[j])})
        /\ Range(apps) \cup Range(failedDownloads)
              = {j \in Jobs : Settled(job[j])}
        /\ Range(apps) \cap Range(failedDownloads) = {}
        /\ pc = "written" =>
              Range(apps) \cup Range(failedDownloads) = Catalog(mode)

C3_Witness ==
    /\ mode = "batched"
    /\ pc = "written"
    /\ Len(failedDownloads) = 1
    /\ Len(apps) = 2
    /\ failedDownloads[1] = 1

\* C4: a failed download never rejects the promise handed to parallelLimit
\* nor parallelLimit itself, and once parallelLimit has returned every job of
\* the slice has the outcome its own provider behaviour and its own
\* destination file give it, whatever its siblings did.
OwnOutcome(j) ==
    IF Skippable(file0[j]) THEN "skip" ELSE Download(prov[j], file0[j]).res

C5_EveryItemStartedOnce ==
    /\ [](\A j \in Jobs : starts[j] <= 1)
    /\ \A j \in Jobs :
          (pc \in {"loop", "race"} /\ lo <= j /\ j <= Hi(mode, lo))
              ~> (starts[j] = 1)

C5_Witness ==
    /\ pc = "all"
    /\ limit = 2
    /\ mode = "whole"
    /\ \A j \in Catalog(mode) : starts[j] = 1
    /\ \A j \in 1 .. 2 : outcome[j] = "fail"

\* C7: the second run ends with the completed set and the failed set of the
\* first, and every job the first run completed is skipped in the second
\* without a request.
C7_SecondRunIdentical ==
    (mode = "batched" /\ run = 2 /\ pc = "written") =>
        /\ Range(apps) = prevApps
        /\ Range(failedDownloads) = prevFailed
        /\ \A j \in prevApps : outcome[j] = "skip" /\ ~calls[j]

\* C6: when the destination file exists with size > 0 at the call, the
\* fetcher (downloadGDrive and downloadFile alike) issues no GET, starts no
\* attempt, leaves the file as it was and ends as skipped.
C6_SkipIssuesNoRequest ==
    (fetcher \in {"downloadGDrive", "downloadFile"} /\ fpc # "idle"
        /\ Skippable(dfile0)) =>
        /\ gets = 0
        /\ attempt = 0
        /\ dfile = dfile0
        /\ fpc \in {"entry", "done"}
        /\ fpc = "done" => fres = "skipped"

C6_Witness ==
    /\ fetcher = "downloadFile"
    /\ fpc = "done"
    /\ fres = "skipped"
    /\ dfile = FileOf(PayloadLen)

\* C8: whenever downloadGDrive has failed, or waits between two attempts,
\* the destination file does not pass the skip check (it is absent or has
\* size 0).
C8_FailureLeavesNoPartialFile ==
    (fetcher = "downloadGDrive" /\ (fpc = "backoff" \/ fres = "failed")) =>
        ~Skippable(dfile)

\* C9: whenever the fetcher (downloadGDrive or downloadFile) returns after a
\* download, the destination file exists, is not empty and has as many bytes
\* as the stream delivered.
C9_SuccessFileMatchesStream ==
    (fetcher \in {"downloadGDrive", "downloadFile"}
        /\ fres = "downloaded") =>
        /\ dfile.exists
        /\ dfile.size > 0
        /\ dfile.size = streamed

\* C10: once downloadFile has read a page with the quota-exceeded marker, it
\* issues no further GET and the job has failed.
C10_QuotaEndsJob ==
    (fetcher = "downloadFile" /\ quotaAt > 0) =>
        /\ gets = quotaAt
        /\ fres = "failed"

\* C11: against a provider that answers every request with a confirm page,
\* a call of downloadFile ends: after finitely many confirmation hops the
\* attempt is over and the job reaches a terminal outcome.
C11_ConfirmChainTerminates ==
    (fetcher = "downloadFile" /\ provider = "selfRef" /\ fpc = "entry"
        /\ ~Skippable(dfile))
        => <>(fpc = "done")

\* C12: in downloadGDrive on a normalized URL that carries the file id, once
\* the HTML page answering the first GET of an attempt holds confirm=T, the
\* follow-up GET of that attempt has been issued, and to that same file id.
C12_ConfirmGoesToOwnId ==
    (fetcher = "downloadGDrive" /\ urlHasId /\ resp.ctype = "html"
        /\ resp.confirm # "none")
        => target = "own"

\* C13: a share link of the shape .../file/d/<ID>/view, with or without a
\* query after it, is normalized to the fetch URL that carries exactly <ID>,
\* for every identifier <ID> of letters, digits, '_' and '-'.
C13_FileLinkKeepsId ==
    \A id \in IdRuns :
        (variant = "scrape.js" /\ normalized.times = 1
            /\ originalUrl \in {FileViewLink(id),
                                FileViewLink(id) \o <<Lit("?usp=sharing")>>})
            => normalized.url = DirectLink(id)

\* C16: two cards with different names get different ipaPaths.
C16_DistinctPaths ==
    ipaPaths # <<>> =>
        \A i, j \in Cards :
            names[i] # names[j] => ipaPaths[i] # ipaPaths[j]

\* C18: for a Drive folder link googleDriveDirectLink returns null: neither
\* a download URL nor any other string.
C18_FolderGivesNull ==
    \A id \in IdRuns :
        (variant = "scrape.js" /\ normalized.times = 1
            /\ originalUrl = FolderLink(id))
            => normalized.url = Null

\* C14: downloadGDrive never goes beyond maxAttempts attempts; every attempt
\* before the current one has failed, and none follows a success; a failed
\* attempt is followed by the next one whatever its error was; after the
\* last failure the error thrown carries the error of that last attempt.
C14_RetryBudget ==
    fetcher = "downloadGDrive" =>
        /\ attempt <= maxAttempts
        /\ failures = (CASE fpc \in {"get", "follow", "stream"} -> attempt - 1
                         [] fpc = "backoff" -> attempt
                         [] fres = "failed" -> maxAttempts
                         [] fres \in {"downloaded", "stalled"} -> attempt - 1
                         [] OTHER -> 0)
        /\ (fpc = "backoff" /\ attempt < maxAttempts) =>
               ENABLED (GBackoff /\ attempt' = attempt + 1)
        /\ fres = "downloaded" => (thrown = NoThrow /\ ~ENABLED NextFetch)
        /\ fres = "failed" =>
               /\ attempt = maxAttempts
               /\ lastErr # "none"
               /\ thrown.attempts = maxAttempts
               /\ thrown.cause = lastErr
        /\ (fpc = "backoff" \/ fres = "failed") =>
               /\ lastErr = "empty" => (dfile = FileOf(0) /\ via # "none")
               /\ lastErr = "stream" => via # "none"
               /\ lastErr = "no file id" =>
                      (~urlHasId /\ resp.confirm = "amp" /\ via = "none")
               /\ lastErr = "no token or link" =>
                      /\ ~IsPayload(resp.disp, resp.ctype)
                      /\ resp.confirm # "amp"
                      /\ resp.href = "none"
                      /\ via = "none"

C14_Witness ==
    /\ fetcher = "downloadGDrive"
    /\ fres = "failed"
    /\ failures = maxAttempts
    /\ thrown.cause = "empty"

\* C15: in the batched variant a failed download never sends scrape() to its
\* fatal exit; unless an upload fails scrape() reaches the manifest write,
\* whatever downloads failed; and the manifest written holds exactly the
\* jobs whose download completed or was skipped.
C15_ManifestDespiteFailures ==
    /\ [](mode = "batched" =>
            /\ pc = "fatal" => err = "upload"
            /\ pc = "written" =>
                  /\ Range(manifest) =
                        {j \in Catalog(mode) : outcome[j] \in {"ok", "skip"}}
                  /\ Len(manifest) = Cardinality(Range(manifest)))
    /\ mode = "batched" => <>(pc = "written" \/ err = "upload")

C15_Witness ==
    /\ mode = "batched"
    /\ pc = "written"
    /\ manifest = <<>>
    /\ \A j \in Catalog(mode) : outcome[j] = "fail"

\* C17: with Content-Disposition present or absent and Content-Type absent,
\* HTML or non-HTML, the first response of a downloadGDrive attempt is
\* taken as payload, and streamed directly to the destination, exactly when
\* Content-Disposition is present or Content-Type is non-HTML; every other
\* response is taken as interstitial and never streamed directly.
C17_PayloadClassification ==
    (fetcher = "downloadGDrive" /\ resp.ctype # "unread") =>
        /\ via = "direct" <=> (resp.disp \/ resp.ctype = "other")
        /\ via = "direct" => fpc \in {"stream", "backoff", "done"}
        /\ fpc = "stream" => via \in {"direct", "href", "confirm"}

C17_Witness ==
    /\ fetcher = "downloadGDrive"
    /\ ~resp.disp
    /\ resp.ctype = "none"
    /\ via = "confirm"
    /\ fres = "downloaded"

\* C19: a call of downloadGDrive uses at most maxAttempts attempts and at
\* most two GETs per attempt, and it always ends: skipped, downloaded or
\* failed, so that the job's promise settles and its slot is freed.
C19_CallTerminates ==
    /\ [](fetcher = "downloadGDrive" =>
            (attempt <= maxAttempts /\ gets <= 2 * maxAttempts))
    /\ (fetcher = "downloadGDrive" /\ fpc = "entry") =>
           <>(fpc = "done" /\ fres \in {"skipped", "downloaded", "failed"})

\* C20: one backoff timer is set per failed attempt of downloadGDrive; the
\* k-th, which precedes attempt k+1, waits 1000*k ms, strictly longer than
\* the one before it.
C20_BackoffGrows ==
    fetcher = "downloadGDrive" =>
        /\ Len(waits) = failures
        /\ fpc \in {"get", "follow", "stream"} => Len(waits) = attempt - 1
        /\ \A k \in 1 .. Len(waits) : waits[k] = 1000 * k
        /\ \A k \in 2 .. Len(waits) : waits[k] > waits[k - 1]

C20_Witness ==
    /\ fetcher = "downloadGDrive"
    /\ fpc = "get"
    /\ attempt = maxAttempts
    /\ waits = <<1000, 2000>>

\* C21: the GET that follows an interstitial page (a confirm token or a
\* download href in downloadGDrive, a confirm token in downloadFile) is issued
\* inside the attempt that read the page: the step that issues it leaves the
\* attempt counter, the failure count and the backoff timers as they were.
C21_FollowUpInsideAttempt ==
    [][/\ (fetcher = "downloadGDrive" /\ fpc = "get" /\ fpc' = "follow") =>
              (attempt' = attempt /\ waits' = waits /\ failures' = failures
                  /\ gets' = gets + 1)
       /\ (fetcher = "downloadFile" /\ fpc = "page" /\ fpc' = "get"
              /\ via' = "confirm") =>
              (attempt' = attempt /\ waits' = waits
                  /\ failures' = failures)]_vars

C21_Witness ==
    /\ fetcher = "downloadGDrive"
    /\ fpc = "follow"
    /\ via = "href"
    /\ attempt = 2
    /\ gets = 3
    /\ Len(waits) = 1

\* C22: in downloadGDrive a stream that ends without an I/O error and
\* leaves a zero-byte destination never counts as a success. Whichever
\* request was streamed (the direct response, the href follow-up or the
\* confirm follow-up), the attempt has failed as "empty", the call waits
\* for its backoff timer, and when an attempt remains the next one starts.
C22_EmptyFileFailsAttempt ==
    fetcher = "downloadGDrive" =>
        /\ fres = "downloaded" => (dfile.size > 0 /\ streamed > 0)
        /\ (fpc \in {"backoff", "get", "follow", "stream"}
               /\ lastErr = "empty") => failures >= 1
        /\ (fpc = "backoff" /\ lastErr = "empty") =>
              /\ dfile = FileOf(0)
              /\ streamed = 0
              /\ fres = "none"
              /\ failures = attempt
              /\ ENABLED GBackoff
              /\ attempt < maxAttempts =>
                    ENABLED (GBackoff /\ attempt' = attempt + 1
                                /\ fpc' = "get")

C22_Witness ==
    /\ fetcher = "downloadGDrive"
    /\ fpc = "backoff"
    /\ lastErr = "empty"
    /\ via = "confirm"
    /\ attempt = 1
    /\ dfile = FileOf(0)

\* C23: a destination is left as it is, and its job counted as already
\* downloaded, only when the file exists with a size above zero; a zero-byte
\* file is downloaded again. This is to hold for every fetcher with a skip
\* check, the sequential gdown main loop of part_001 included.
C23_SkipOnlyNonEmpty ==
    (fetcher \in {"downloadGDrive", "downloadFile", "downloadFromGDrive"}
        /\ fpc \notin {"idle", "entry"}) =>
        /\ fres = "skipped" => (dfile0.exists /\ dfile0.size > 0)
        /\ dfile0 = FileOf(0) => (fres # "skipped" /\ gets >= 1)

\* C26: while downloadGDrive buffers an HTML body, the buffered size stays
\* under a fixed ceiling that long bodies exceed (the attempt is aborted
\* instead): the longest body the provider sends, MaxBody chunks, is never
\* held in memory whole.
C26_BufferStaysUnderCeiling ==
    fetcher = "downloadGDrive" => resp.buffered < MaxBody

\* C29: in downloadFile of part_001 the requests that fail on one job never
\* number more than MAX_RETRIES, also when a confirm page was followed: the
\* nested call draws on the budget of the call that made it.
C29_NestedCallSharesBudget ==
    fetcher = "downloadFile_001" => failures <= MAX_RETRIES

\* A pattern of googleDriveDirectLink or its fallback finds an id in text.
HasId(text) ==
    \/ \E k \in 1 .. 6 : Captures(text, k) # {}
    \/ AltMatches(text) # {}

\* C27: googleDriveDirectLink of scrape.js gives back exactly its input when
\* the input holds no recognizable file id (no pattern matches it, before or
\* after decoding, and it has no run of AltIdLen id characters), when it is
\* empty and when it is not a string; it returns in every case, also on
\* text decodeURIComponent throws on.
C27_NoIdGivesInput ==
    (variant = "scrape.js" /\ normalized.times = 1) =>
        /\ (originalUrl = <<>> \/ originalUrl \in {Null, Number42}) =>
               normalized.url = originalUrl
        /\ (originalUrl # <<>> /\ originalUrl \notin {Null, Number42}
               /\ ~HasId(originalUrl) /\ ~HasId(Decode(originalUrl))) =>
               normalized.url = originalUrl
        /\ Malformed(originalUrl) => normalized.url = originalUrl

C27_Witness ==
    /\ variant = "scrape.js"
    /\ normalized.times = 1
    /\ originalUrl = FileViewLink(Run("ABC123", 6))
    /\ normalized.url = originalUrl

\* C28: googleDriveDirectLink applied to its own result gives that result
\* again, for every input, in scrape.js and in part_003.
C28_Idempotent ==
    normalized.times = 2 => normalized.url = normalized.first

\* C24: every entry of the written manifest belongs to a job whose download
\* completed or was skipped; a job that failed, or whose download has not
\* ended, has no entry.
C24_ManifestOnlyCompleted ==
    pc = "written" =>
        \A i \in 1 .. Len(manifest) : outcome[manifest[i]] \in {"ok", "skip"}

\* C30: when runConcurrent has resolved and the manifest is written, every
\* task has settled, results holds exactly one entry per task and no
\* download is in flight.
C30_RunConcurrentWaitsForAll ==
    (mode = "concurrent" /\ pc = "written") =>
        /\ \A j \in Catalog(mode) : Settled(job[j])
        /\ Len(results) = CatalogSize(mode)
        /\ Range(results) = Catalog(mode)
        /\ InFlight = {}

\* C25: in scrape.js, when the run has written its manifest,
\* failedDownloads.json has been written if and only if a job failed in the
\* run; it then holds exactly one entry per failed job, with the job's name,
\* its URL and the message of the error its last attempt ended with. When
\* no job failed the file is as it was before the run.
C25_FailedLogMatchesFailures ==
    mode = "batched" =>
        /\ pc # "written" => failedLog = <<>>
        /\ pc = "written" =>
              LET failed == {j \in Catalog(mode) : outcome[j] = "fail"}
              IN /\ (failedLog # <<>>) <=> (failed # {})
                 /\ Len(failedLog) = Cardinality(failed)
                 /\ {failedLog[i].name : i \in 1 .. Len(failedLog)} = failed
                 /\ \A i \in 1 .. Len(failedLog) :
                       /\ failedLog[i].url = failedLog[i].name
                       /\ failedLog[i].error.attempts = maxAttempts
                       /\ failedLog[i].error.cause # "none"
                       /\ failedLog[i].error.cause
                             = ErrorOf(prov[failedLog[i].name])

C25_Witness ==
    /\ mode = "batched"
    /\ pc = "written"
    /\ Len(failedLog) = 2
    /\ failedLog[1].error.cause = "stream"
    /\ failedLog[2].error.cause = "network"
    /\ Len(manifest) = 1

\* C31: when downloadGDrive returns after a download, the bytes in the
\* destination are those of a response classified as payload: the direct
\* response that passed the header test, or a follow-up response that is a
\* payload. A follow-up response that is an HTML page is never saved and
\* reported as a download.
C31_OnlyPayloadIsSaved ==
    (fetcher = "downloadGDrive" /\ fres = "downloaded") =>
        \/ via = "direct" /\ IsPayload(resp.disp, resp.ctype)
        \/ via \in {"href", "confirm"} /\ resp.follow = "payload"

\* C32: in scrape.js every file handed to uploadBatch, or uploaded by it, is
\* the file of a job of the current batch whose download completed or was
\* skipped: the file of a failed job is never uploaded.
C32_OnlyCompletedUploaded ==
    mode = "batched" =>
        \A j \in uploaded \cup Range(upQueue) : outcome[j] \in {"ok", "skip"}

\* C33: in scrape.js the batches follow one another: while a job of a batch
\* is started or in flight, every job of the batches before it has settled
\* and every file of theirs that exists has been uploaded; nothing beyond
\* the current batch is started; and at most BATCH_SIZE downloads are in
\* flight.
C33_BatchesSequential ==
    mode = "batched" =>
        /\ Cardinality(InFlight) <= BATCH_SIZE
        /\ InFlight \subseteq lo .. (lo + BATCH_SIZE - 1)
        /\ \A j \in Jobs : j > lo + BATCH_SIZE - 1 => job[j] = "new"
        /\ pc \notin {"written", "fatal"} =>
              \A k \in 1 .. (lo - 1) :
                  /\ Settled(job[k])
                  /\ file[k].exists => k \in uploaded

C33_Witness ==
    /\ mode = "batched"
    /\ lo = BATCH_SIZE + 1
    /\ job[lo] = "fetching"
    /\ outcome[1] = "fail"
    /\ file[1].exists
    /\ 1 \in uploaded

\* C34: in scrape.js a failed upload does not end the run: after it the
\* remaining batches are downloaded and the manifest is written.
C34_UploadFailureGoesOn ==
    mode = "batched" => [](err = "upload" => <>(pc = "written"))

\* C35: the manifest scrape.js writes lists its entries in catalog order,
\* whatever the order in which the downloads finished.
C35_ManifestInCatalogOrder ==
    (mode = "batched" /\ pc = "written") =>
        \A i, k \in 1 .. Len(manifest) : i < k => manifest[i] < manifest[k]

====
